---- MODULE Spec2Model ----
(***************************************************************************)
(* Model of python/ecr_delete_push_images.py: discovery of the ECR         *)
(* repositories with a name prefix, selection of the three most recently   *)
(* pushed tags of each, and the pull -> delete -> push cycle on each tag.  *)
(*                                                                         *)
(* The registry (ECR) and the local container tool (docker) are the        *)
(* environment.  Every external call either succeeds, with its effect, or  *)
(* fails with the exception its call site documents and no effect:         *)
(* CalledProcessError for a subprocess, BotoCoreError/ClientError for a    *)
(* registry API call.  No other writer touches the registry.               *)
(***************************************************************************)
EXTENDS Integers, Sequences, FiniteSets, TLC

VARIABLES
    dry_run,      \* args.dry_run
    prefix,       \* args.prefix, a sequence of characters
    registry,     \* ECR: repository name -> sequence of image records
    registry0,    \* the registry as it was when the run started
    local,        \* docker's local store: image reference -> digest or "none"
    now,          \* the registry's clock, stamps imagePushedAt of a new image
    pc,           \* position of main()
    repos,        \* main: repos
    ri,           \* main: index of the current repository in repos (for repo in repos)
    tags,         \* main: tags of the current repository
    ti,           \* main: index of the current tag in tags (for tag in tags)
    total_repos, total_tags, successes, failures,   \* main: the counters
    calls,        \* every external call issued, in order, with its outcome
    results,      \* every (ok, reason) process_tag returned, in order
    ranked,       \* every list get_last_three_tags returned to main, in order
    log,          \* the log records emitted at INFO and above
    d_pages, d_prefix, d_out, d_pc,   \* get_repositories_with_prefix on its own
    r_images, r_cut, r_out, r_pc      \* get_last_three_tags on its own

mainVars == <<dry_run, prefix, registry, registry0, local, now, pc, repos, ri, tags, ti,
              total_repos, total_tags, successes, failures, calls, results, ranked, log>>
discVars == <<d_pages, d_prefix, d_out, d_pc>>
rankVars == <<r_images, r_cut, r_out, r_pc>>
vars == <<mainVars, discVars, rankVars>>

(***************************************************************************)
(* Bounds of the model.                                                    *)
(***************************************************************************)
MaxNameLen == 2        \* longest repository name and prefix enumerated
MaxListed == 2         \* repositories in one enumerated listing
MaxImages == 2         \* images of one enumerated repository
MaxTime == 2           \* distinct imagePushedAt values
PageSize == 1          \* items on one page of a paginated listing

MaxTags == 3           \* get_last_three_tags caps the list at 3

Chars == {"g", "o"}
TagNames == {"v1", "v2", "v3", "v4"}

RECURSIVE SeqsUpTo(_, _)
SeqsUpTo(S, n) ==
    IF n = 0 THEN {<<>>}
    ELSE LET shorter == SeqsUpTo(S, n - 1)
         IN shorter \cup {Append(s, x) : s \in shorter, x \in S}

Range(s) == {s[i] : i \in 1..Len(s)}

RECURSIVE Flatten(_)
Flatten(ss) == IF ss = <<>> THEN <<>> ELSE Head(ss) \o Flatten(Tail(ss))

\* a paginator: the listing cut into pages of n items, the last one shorter
RECURSIVE Chunk(_, _)
Chunk(s, n) ==
    IF Len(s) <= n THEN <<s>>
    ELSE <<SubSeq(s, 1, n)>> \o Chunk(SubSeq(s, n + 1, Len(s)), n)

(***************************************************************************)
(* get_repositories_with_prefix                                            *)
(***************************************************************************)
\* faulty variant: tests the end of the name (endswith)
StartsWithMut(name, p) ==
    Len(p) <= Len(name) /\ SubSeq(name, Len(name) - Len(p) + 1, Len(name)) = p
\* str.startswith
StartsWith(name, p) ==
    Len(p) <= Len(name) /\ SubSeq(name, 1, Len(p)) = p

\* the inner loop: for repo in page.get("repositories", [])
RECURSIVE ScanPage(_, _, _)
ScanPage(page, p, acc) ==
    IF page = <<>> THEN acc
    ELSE ScanPage(Tail(page), p,
                  IF StartsWith(Head(page), p) THEN Append(acc, Head(page)) ELSE acc)

\* the outer loop: for page in paginator.paginate()
RECURSIVE ScanPages(_, _, _)
ScanPages(pages, p, acc) ==
    IF pages = <<>> THEN acc
    ELSE ScanPages(Tail(pages), p, ScanPage(Head(pages), p, acc))

get_repositories_with_prefix(pages, p) == ScanPages(pages, p, <<>>)

(***************************************************************************)
(* get_last_three_tags                                                     *)
(***************************************************************************)
Image(d, t, tg) == [digest |-> d, pushedAt |-> t, tags |-> tg]

\* describe_images with filter tagStatus = TAGGED: the registry leaves out
\* the images that carry no tag
TaggedOnly(images) == SelectSeq(images, LAMBDA im : im.tags # <<>>)

\* list.sort(key = imagePushedAt, reverse = True): descending, and stable
\* (images with equal keys keep their relative order)
RECURSIVE InsertDesc(_, _)
InsertDesc(sorted, im) ==
    IF sorted = <<>> THEN <<im>>
    ELSE IF Head(sorted).pushedAt < im.pushedAt THEN <<im>> \o sorted
    ELSE <<Head(sorted)>> \o InsertDesc(Tail(sorted), im)

RECURSIVE SortFrom(_, _)
SortFrom(images, sorted) ==
    IF images = <<>> THEN sorted
    ELSE SortFrom(Tail(images), InsertDesc(sorted, Head(images)))

\* faulty variant: the images are left in listing order
SortByPushedAtDescMut(images) == images
SortByPushedAtDesc(images) == SortFrom(images, <<>>)

\* faulty variant: a tag already collected is appended again
RECURSIVE WalkTagsMut(_, _)
WalkTagsMut(ts, acc) ==
    IF ts = <<>> THEN acc
    ELSE LET acc2 == Append(acc, Head(ts))
         IN IF Len(acc2) = MaxTags THEN acc2 ELSE WalkTagsMut(Tail(ts), acc2)
\* for t in img.get("imageTags", []): append if new, break at three
RECURSIVE WalkTags(_, _)
WalkTags(ts, acc) ==
    IF ts = <<>> THEN acc
    ELSE LET acc2 == IF Head(ts) \notin Range(acc) THEN Append(acc, Head(ts)) ELSE acc
         IN IF Len(acc2) = MaxTags THEN acc2 ELSE WalkTags(Tail(ts), acc2)

\* for img in images: walk its tags, break at three
RECURSIVE WalkImages(_, _)
WalkImages(images, acc) ==
    IF images = <<>> THEN acc
    ELSE LET acc2 == WalkTags(Head(images).tags, acc)
         IN IF Len(acc2) = MaxTags THEN acc2 ELSE WalkImages(Tail(images), acc2)

\* resp is what the paginator yields: the pages of imageDetails, or the
\* BotoCoreError/ClientError it raised
ApiError == [error |-> TRUE, pages |-> <<>>]
ApiPages(pages) == [error |-> FALSE, pages |-> pages]

get_last_three_tags(resp) ==
    IF resp.error THEN <<>>
    ELSE LET images == Flatten(resp.pages)
         IN IF images = <<>> THEN <<>>
            ELSE WalkImages(SortByPushedAtDesc(images), <<>>)

(***************************************************************************)
(* The registry and the local container tool                               *)
(***************************************************************************)
GA == <<"g", "a">>
OB == <<"o", "b">>
GC == <<"g", "c">>
AllRepos == {GA, OB, GC}
AccountId == "123456789012"
Region == "us-east-1"
NoRepo == <<>>
NoTag == ""

\* contents a repository can start with: empty; two images, the older one
\* with two tags; an untagged image beside a tagged one; two images pushed
\* at the same time carrying four tags
RepoContents ==
    { <<>>,
      <<Image("d1", 1, <<"v1", "v2">>), Image("d2", 2, <<"v3">>)>>,
      <<Image("d1", 1, <<>>), Image("d2", 2, <<"v1">>)>>,
      <<Image("d1", 2, <<"v1", "v2">>), Image("d2", 2, <<"v3", "v4">>)>> }

\* the pages describe_repositories yields
RepoPages == Chunk(<<GA, OB, GC>>, PageSize)

\* the digest a tag of a repository resolves to, "none" when the tag is absent
Resolve(reg, repo, tag) ==
    LET hit == {i \in 1..Len(reg[repo]) : tag \in Range(reg[repo][i].tags)}
    IN IF hit = {} THEN "none" ELSE reg[repo][CHOOSE i \in hit : TRUE].digest

\* image_uri = f"{account_id}.dkr.ecr.{region}.amazonaws.com/{repo_name}:{tag}"
ImageUri(account_id, region, repo_name, tag) ==
    <<account_id, ".dkr.ecr.", region, ".amazonaws.com/", repo_name, ":", tag>>

Refs == {ImageUri(AccountId, Region, r, t) : r \in AllRepos, t \in TagNames}

Without(ts, tag) == SelectSeq(ts, LAMBDA t : t # tag)

\* faulty variant: the whole image is deleted, with its other tags
EcrDeleteTagMut(images, tag) ==
    SelectSeq(images, LAMBDA im : tag \notin Range(im.tags))
\* ecr.batch_delete_image(imageIds=[{"imageTag": tag}]): the tag is removed
\* from its image; an image left without any tag by this is deleted
EcrDeleteTag(images, tag) ==
    LET untag(im) == [im EXCEPT !.tags = Without(im.tags, tag)]
        kept == SelectSeq(images, LAMBDA im : tag \notin Range(im.tags) \/ untag(im).tags # <<>>)
    IN [i \in 1..Len(kept) |-> untag(kept[i])]

\* docker push: the tag is put on the image with that digest, which is
\* created, pushed now, when the repository does not hold it
EcrPutImage(images, tag, digest, t) ==
    LET moved == [i \in 1..Len(images) |->
                    IF images[i].digest = digest THEN images[i]
                    ELSE [images[i] EXCEPT !.tags = Without(@, tag)]]
        held == {i \in 1..Len(moved) : moved[i].digest = digest}
    IN IF held = {}
       THEN Append(moved, Image(digest, t, <<tag>>))
       ELSE [i \in 1..Len(moved) |->
               IF i \in held /\ tag \notin Range(moved[i].tags)
               THEN [moved[i] EXCEPT !.tags = Append(@, tag)]
               ELSE moved[i]]

\* faulty variant: a reference already held locally is not refreshed
DockerPullMut(store, uri, digest) ==
    IF store[uri] = "none" THEN [store EXCEPT ![uri] = digest] ELSE store
\* docker pull: the reference now names, locally, what the registry holds
DockerPull(store, uri, digest) == [store EXCEPT ![uri] = digest]

Call(op, repo, tag, ok) == [op |-> op, repo |-> repo, tag |-> tag, ok |-> ok]
Result(repo, tag, ok, reason) == [repo |-> repo, tag |-> tag, ok |-> ok, reason |-> reason]
Rec(level, msg) == <<level, msg>>

(***************************************************************************)
(* main                                                                    *)
(***************************************************************************)
Init ==
    /\ dry_run \in BOOLEAN
    /\ prefix \in {<<"g">>, <<"o">>}
    /\ \E a \in RepoContents, c \in RepoContents :
          registry = (GA :> a) @@ (GC :> c) @@ (OB :> <<Image("d1", 1, <<>>), Image("d2", 2, <<"v1">>)>>)
    /\ registry0 = registry
    /\ local \in {[u \in Refs |-> "none"], [u \in Refs |-> "stale"]}
    /\ now = MaxTime + 1
    /\ pc = "start"
    /\ repos = <<>>
    /\ ri = 0
    /\ tags = <<>>
    /\ ti = 0
    /\ total_repos = 0 /\ total_tags = 0 /\ successes = 0 /\ failures = 0
    /\ calls = <<>>
    /\ results = <<>>
    /\ ranked = <<>>
    /\ log = <<>>
    /\ d_pages = <<>> /\ d_prefix = <<>> /\ d_out = <<>> /\ d_pc = "idle"
    /\ r_images = <<>> /\ r_cut = 0 /\ r_out = <<>> /\ r_pc = "idle"

\* faulty variant: the login is run in dry-run mode too
NeedsLoginMut(dry) == TRUE
\* if not args.dry_run: docker_login(...)
NeedsLogin(dry) == ~dry

\* faulty variant: the return after the critical record is missing
AfterLoginFailureMut == "discover"
\* except CalledProcessError: logging.critical(...); return
AfterLoginFailure == "done"

\* setup_logging, get_ecr_client, and the dry-run test before the login
Start ==
    /\ pc = "start"
    /\ pc' = IF NeedsLogin(dry_run) THEN "login_password" ELSE "discover"
    /\ UNCHANGED <<discVars, rankVars, dry_run, prefix, registry, registry0, local, now, repos, ri, tags, ti,
                   total_repos, total_tags, successes, failures, calls, results, ranked, log>>

\* docker_login, first step: aws ecr get-login-password
LoginPassword ==
    /\ pc = "login_password"
    /\ \E ok \in BOOLEAN :
          /\ calls' = Append(calls, Call("get-login-password", NoRepo, NoTag, ok))
          /\ IF ok
             THEN /\ pc' = "docker_login"
                  /\ log' = Append(log, Rec("INFO", "logging-into-registry"))
             ELSE /\ pc' = AfterLoginFailure
                  /\ log' = Append(log, Rec("CRITICAL", "docker-login-failed"))
    /\ UNCHANGED <<discVars, rankVars, dry_run, prefix, registry, registry0, local, now, repos, ri, tags, ti,
                   total_repos, total_tags, successes, failures, results, ranked>>

\* docker_login, second step: docker login --password-stdin
DockerLogin ==
    /\ pc = "docker_login"
    /\ \E ok \in BOOLEAN :
          /\ calls' = Append(calls, Call("docker-login", NoRepo, NoTag, ok))
          /\ IF ok
             THEN /\ pc' = "discover"
                  /\ log' = log
             ELSE /\ pc' = AfterLoginFailure
                  /\ log' = Append(log, Rec("CRITICAL", "docker-login-failed"))
    /\ UNCHANGED <<discVars, rankVars, dry_run, prefix, registry, registry0, local, now, repos, ri, tags, ti,
                   total_repos, total_tags, successes, failures, results, ranked>>

\* repos = get_repositories_with_prefix(ecr, args.prefix); an error of the
\* listing is caught nowhere and ends main with the exception
Discover ==
    /\ pc = "discover"
    /\ \E ok \in BOOLEAN :
          /\ calls' = Append(calls, Call("describe-repositories", NoRepo, NoTag, ok))
          /\ IF ok
             THEN /\ repos' = get_repositories_with_prefix(RepoPages, prefix)
                  /\ ri' = 1
                  /\ log' = Append(log, Rec("INFO", "discovered"))
                  /\ pc' = "rank"
             ELSE /\ pc' = "crashed"
                  /\ UNCHANGED <<repos, ri, log>>
    /\ UNCHANGED <<discVars, rankVars, dry_run, prefix, registry, registry0, local, now, tags, ti,
                   total_repos, total_tags, successes, failures, results, ranked>>

\* the pages describe_images yields for a repository
ImagePages(images) == Chunk(TaggedOnly(images), PageSize)

\* for repo in repos: tags = get_last_three_tags(ecr, repo); if not tags: continue
RankRepo ==
    /\ pc = "rank"
    /\ ri <= Len(repos)
    /\ \E ok \in BOOLEAN :
          LET repo == repos[ri]
              resp == IF ok THEN ApiPages(ImagePages(registry[repo])) ELSE ApiError
              got == get_last_three_tags(resp)
          IN /\ calls' = Append(calls, Call("describe-images", repo, NoTag, ok))
             /\ ranked' = Append(ranked, [repo |-> repo, tags |-> got])
             /\ IF got = <<>>
                THEN /\ log' = log \o (IF ok THEN <<>> ELSE <<Rec("ERROR", "list-tags-failed")>>)
                                  \o <<Rec("INFO", "no-recent-tags")>>
                     /\ ri' = ri + 1
                     /\ UNCHANGED <<tags, ti, total_repos, pc>>
                ELSE /\ total_repos' = total_repos + 1
                     /\ log' = Append(log, Rec("INFO", "processing-repo"))
                     /\ tags' = got
                     /\ ti' = 1
                     /\ pc' = "tag"
                     /\ ri' = ri
    /\ UNCHANGED <<discVars, rankVars, dry_run, prefix, registry, registry0, local, now, repos,
                   total_tags, successes, failures, results>>

\* faulty variant: a failed tag is not counted
TagDoneMut(ok, reason, said) ==
    /\ results' = Append(results, Result(repos[ri], tags[ti], ok, reason))
    /\ successes' = (IF ok THEN successes + 1 ELSE successes)
    /\ failures' = failures
    /\ log' = log \o said \o (IF ok THEN <<>> ELSE <<Rec("WARNING", "action-failed")>>)
    /\ IF ti < Len(tags)
       THEN ti' = ti + 1 /\ pc' = "tag" /\ ri' = ri
       ELSE ti' = ti /\ pc' = "rank" /\ ri' = ri + 1
\* main, after process_tag returned (ok, reason): count it, warn on a
\* failure, and go to the next tag or the next repository
TagDone(ok, reason, said) ==
    /\ results' = Append(results, Result(repos[ri], tags[ti], ok, reason))
    /\ IF ok THEN successes' = successes + 1 /\ failures' = failures
             ELSE failures' = failures + 1 /\ successes' = successes
    /\ log' = log \o said \o (IF ok THEN <<>> ELSE <<Rec("WARNING", "action-failed")>>)
    /\ IF ti < Len(tags)
       THEN ti' = ti + 1 /\ pc' = "tag" /\ ri' = ri
       ELSE ti' = ti /\ pc' = "rank" /\ ri' = ri + 1

\* process_tag in dry-run mode
DryRunTag ==
    /\ pc = "tag"
    /\ dry_run
    /\ total_tags' = total_tags + 1
    /\ TagDone(TRUE, "dry-run", <<Rec("INFO", "dry-run-would-process")>>)
    /\ UNCHANGED <<discVars, rankVars, dry_run, prefix, registry, registry0, local, now, repos, tags,
                   total_repos, calls, ranked>>

\* where process_tag goes when a step raised
AfterPullFailure == "return"
\* faulty variant: a failed delete falls through to the push
AfterDeleteFailureMut == "push"
AfterDeleteFailure == "return"

\* process_tag, live: docker pull
Pull ==
    /\ pc = "tag"
    /\ ~dry_run
    /\ total_tags' = total_tags + 1
    /\ LET repo == repos[ri]
           tag == tags[ti]
           uri == ImageUri(AccountId, Region, repo, tag)
       IN \E ok \in {b \in BOOLEAN : b => Resolve(registry, repo, tag) # "none"} :
             /\ calls' = Append(calls, Call("pull", repo, tag, ok))
             /\ IF ok
                THEN /\ local' = DockerPull(local, uri, Resolve(registry, repo, tag))
                     /\ log' = log \o <<Rec("INFO", "pulling"), Rec("INFO", "pulled")>>
                     /\ pc' = "delete"
                     /\ UNCHANGED <<ri, ti, successes, failures, results>>
                ELSE /\ local' = local
                     /\ IF AfterPullFailure = "return"
                        THEN TagDone(FALSE, "pull-failed",
                                     <<Rec("INFO", "pulling"), Rec("ERROR", "pull-failed")>>)
                        ELSE /\ pc' = AfterPullFailure
                             /\ log' = log \o <<Rec("INFO", "pulling"), Rec("ERROR", "pull-failed")>>
                             /\ UNCHANGED <<ri, ti, successes, failures, results>>
    /\ UNCHANGED <<discVars, rankVars, dry_run, prefix, registry, registry0, now, repos, tags,
                   total_repos, ranked>>

\* process_tag, live: ecr.batch_delete_image
Delete ==
    /\ pc = "delete"
    /\ LET repo == repos[ri]
           tag == tags[ti]
       IN \E ok \in BOOLEAN :
             /\ calls' = Append(calls, Call("delete", repo, tag, ok))
             /\ IF ok
                THEN /\ registry' = [registry EXCEPT ![repo] = EcrDeleteTag(@, tag)]
                     /\ log' = log \o <<Rec("INFO", "deleting"), Rec("INFO", "deleted")>>
                     /\ pc' = "push"
                     /\ UNCHANGED <<ri, ti, successes, failures, results>>
                ELSE /\ registry' = registry
                     /\ IF AfterDeleteFailure = "return"
                        THEN TagDone(FALSE, "delete-failed",
                                     <<Rec("INFO", "deleting"), Rec("ERROR", "delete-failed")>>)
                        ELSE /\ pc' = AfterDeleteFailure
                             /\ log' = log \o <<Rec("INFO", "deleting"), Rec("ERROR", "delete-failed")>>
                             /\ UNCHANGED <<ri, ti, successes, failures, results>>
    /\ UNCHANGED <<discVars, rankVars, dry_run, prefix, registry0, local, now, repos, tags,
                   total_repos, total_tags, ranked>>

\* process_tag, live: docker push, then return True, "ok"
Push ==
    /\ pc = "push"
    /\ LET repo == repos[ri]
           tag == tags[ti]
           uri == ImageUri(AccountId, Region, repo, tag)
       IN \E ok \in BOOLEAN :
             /\ calls' = Append(calls, Call("push", repo, tag, ok))
             /\ IF ok
                THEN /\ registry' = [registry EXCEPT ![repo] = EcrPutImage(@, tag, local[uri], now)]
                     /\ now' = now + 1
                     /\ TagDone(TRUE, "ok", <<Rec("INFO", "pushing"), Rec("INFO", "pushed")>>)
                ELSE /\ UNCHANGED <<registry, now>>
                     /\ TagDone(FALSE, "push-failed",
                                <<Rec("INFO", "pushing"), Rec("ERROR", "push-failed")>>)
    /\ UNCHANGED <<discVars, rankVars, dry_run, prefix, registry0, local, repos, tags,
                   total_repos, total_tags, ranked>>

\* after the loop: the summary
Summary ==
    /\ pc = "rank"
    /\ ri > Len(repos)
    /\ log' = log \o <<Rec("INFO", "summary"), Rec("INFO", "repositories-touched"),
                       Rec("INFO", "tags-attempted")>>
                  \o (IF dry_run THEN <<Rec("INFO", "mode-dry-run")>> ELSE <<>>)
    /\ pc' = "done"
    /\ UNCHANGED <<discVars, rankVars, dry_run, prefix, registry, registry0, local, now, repos, ri, tags, ti,
                   total_repos, total_tags, successes, failures, calls, results, ranked>>

Next ==
    \/ Start
    \/ LoginPassword
    \/ DockerLogin
    \/ Discover
    \/ RankRepo
    \/ DryRunTag
    \/ Pull
    \/ Delete
    \/ Push
    \/ Summary

Spec == Init /\ [][Next]_vars

(***************************************************************************)
(* get_repositories_with_prefix and get_last_three_tags on their own, on   *)
(* every listing within the bounds                                         *)
(***************************************************************************)
MainIdle ==
    /\ dry_run = TRUE /\ prefix = <<>>
    /\ registry = [r \in AllRepos |-> <<>>] /\ registry0 = registry
    /\ local = [u \in Refs |-> "none"] /\ now = 0
    /\ pc = "idle" /\ repos = <<>> /\ ri = 0 /\ tags = <<>> /\ ti = 0
    /\ total_repos = 0 /\ total_tags = 0 /\ successes = 0 /\ failures = 0
    /\ calls = <<>> /\ results = <<>> /\ ranked = <<>> /\ log = <<>>

Names == SeqsUpTo(Chars, MaxNameLen)

InitDiscover ==
    /\ MainIdle
    /\ \E listing \in SeqsUpTo(Names, MaxListed), size \in 1..(MaxListed + 1) :
          d_pages = Chunk(listing, size)
    /\ d_prefix \in Names
    /\ d_out = <<>>
    /\ d_pc = "call"
    /\ r_images = <<>> /\ r_cut = 0 /\ r_out = <<>> /\ r_pc = "idle"

CallDiscover ==
    /\ d_pc = "call"
    /\ d_out' = get_repositories_with_prefix(d_pages, d_prefix)
    /\ d_pc' = "returned"
    /\ UNCHANGED <<mainVars, rankVars, d_pages, d_prefix>>

NextDiscover == CallDiscover

SpecDiscover == InitDiscover /\ [][NextDiscover]_vars

\* the tags one image can carry: up to two of the tag names, all different
TagLists == {ts \in SeqsUpTo(TagNames, 2) : Cardinality(Range(ts)) = Len(ts)}

ImagesOfRepo ==
    SeqsUpTo({Image("d", t, ts) : t \in 1..MaxTime, ts \in TagLists}, MaxImages)

InitRank ==
    /\ MainIdle
    /\ r_images \in ImagesOfRepo
    /\ r_cut \in {PageSize, MaxImages + 1}    \* the page size of describe_images
    /\ r_out = <<>>
    /\ r_pc = "call"
    /\ d_pages = <<>> /\ d_prefix = <<>> /\ d_out = <<>> /\ d_pc = "idle"

CallRank ==
    /\ r_pc = "call"
    /\ r_out' = get_last_three_tags(ApiPages(Chunk(TaggedOnly(r_images), r_cut)))
    /\ r_pc' = "returned"
    /\ UNCHANGED <<mainVars, discVars, r_images, r_cut>>

NextRank == CallRank

SpecRank == InitRank /\ [][NextRank]_vars

(***************************************************************************)
(* Properties                                                              *)
(***************************************************************************)
Min(a, b) == IF a <= b THEN a ELSE b
Last(s) == s[Len(s)]
NoDuplicates(s) == \A i, j \in 1..Len(s) : s[i] = s[j] => i = j
Has(s, P(_)) == \E i \in 1..Len(s) : P(s[i])
Count(s, P(_)) == Cardinality({i \in 1..Len(s) : P(s[i])})

RefreshOps == {"pull", "delete", "push"}
LoginOps == {"get-login-password", "docker-login"}

\* the pull/delete/push calls issued for a tag of a repository, as <<op, ok>>
StepsOf(repo, tag) ==
    LET mine == SelectSeq(calls, LAMBDA c : c.repo = repo /\ c.tag = tag /\ c.op \in RefreshOps)
    IN [i \in 1..Len(mine) |-> <<mine[i].op, mine[i].ok>>]

ReasonOf(repo, tag) ==
    LET hit == {i \in 1..Len(results) : results[i].repo = repo /\ results[i].tag = tag}
    IN IF hit = {} THEN "none" ELSE results[CHOOSE i \in hit : TRUE].reason

\* C1: in live mode the steps of process_tag are gated: a failed pull gives
\* (false, "pull-failed") with no delete and no push; a failed delete after a
\* pull gives (false, "delete-failed") with no push; a failed push after pull
\* and delete gives (false, "push-failed"); (true, "ok") is returned only
\* after pull, delete and push all succeeded, in that order.
C1_StepsGated ==
    ~dry_run =>
        /\ \A i \in 1..Len(results) :
              LET res == results[i]
                  steps == StepsOf(res.repo, res.tag)
              IN /\ res.reason \in {"pull-failed", "delete-failed", "push-failed", "ok"}
                 /\ res.ok <=> res.reason = "ok"
                 /\ res.reason = "pull-failed" => steps = <<<<"pull", FALSE>>>>
                 /\ res.reason = "delete-failed" =>
                       steps = <<<<"pull", TRUE>>, <<"delete", FALSE>>>>
                 /\ res.reason = "push-failed" =>
                       steps = <<<<"pull", TRUE>>, <<"delete", TRUE>>, <<"push", FALSE>>>>
                 /\ res.reason = "ok" =>
                       steps = <<<<"pull", TRUE>>, <<"delete", TRUE>>, <<"push", TRUE>>>>
        /\ pc = "delete" => StepsOf(repos[ri], tags[ti]) = <<<<"pull", TRUE>>>>
        /\ pc = "push" =>
              StepsOf(repos[ri], tags[ti]) = <<<<"pull", TRUE>>, <<"delete", TRUE>>>>

C1_Witness ==
    /\ ~dry_run
    /\ \A r \in {"pull-failed", "delete-failed", "push-failed", "ok"} :
          Has(results, LAMBDA res : res.reason = r)

\* C2: in dry-run mode no login, pull, delete or push call is ever issued,
\* the registry is left as it was, and every attempted tag is a success with
\* reason "dry-run": succeeded = tags attempted and failed = 0.
C2_DryRunTouchesNothing ==
    dry_run =>
        /\ ~Has(calls, LAMBDA c : c.op \in RefreshOps \cup LoginOps)
        /\ registry = registry0
        /\ \A i \in 1..Len(results) : results[i].ok /\ results[i].reason = "dry-run"
        /\ Len(results) = total_tags
        /\ successes = total_tags
        /\ failures = 0

C2_Witness ==
    /\ dry_run
    /\ pc = "done"
    /\ total_tags > MaxTags
    /\ Last(log) = Rec("INFO", "mode-dry-run")

AuthPassed == dry_run \/ Has(calls, LAMBDA c : c.op = "docker-login" /\ c.ok)
SummaryLogged == Has(log, LAMBDA l : l = Rec("INFO", "summary"))

\* C3: once authentication has succeeded (or in dry-run mode) no failure in
\* discovery, tag ranking or tag refresh stops the run: a repository whose
\* ranking failed is skipped and not counted, a failed step fails only its
\* tag, every discovered repository is ranked, every selected tag is
\* attempted exactly once, and the run ends with the summary.
C3_OnlyAuthAborts ==
    AuthPassed =>
        /\ pc # "crashed"
        /\ \A i \in 1..Len(ranked) :
              /\ ranked[i].repo = repos[i]
              /\ calls[CHOOSE k \in 1..Len(calls) :
                         calls[k].op = "describe-images" /\ calls[k].repo = ranked[i].repo].ok
                    = FALSE
                 => /\ ranked[i].tags = <<>>
                    /\ ~Has(calls, LAMBDA c : c.repo = ranked[i].repo /\ c.op \in RefreshOps)
        /\ pc = "done" =>
              /\ SummaryLogged
              /\ Len(ranked) = Len(repos)
              /\ \A i \in 1..Len(ranked) : \A k \in 1..Len(ranked[i].tags) :
                    Count(results, LAMBDA res : res.repo = ranked[i].repo
                                                 /\ res.tag = ranked[i].tags[k]) = 1

LoginFailed == Has(calls, LAMBDA c : c.op \in LoginOps /\ ~c.ok)

\* C4: in live mode a failure of either step of the login aborts the run
\* before any repository is processed: a critical record is logged, and no
\* listing, ranking, pull, delete or push follows, so no repository and no
\* tag is attempted.
C4_LoginFailureAborts ==
    LoginFailed =>
        /\ ~dry_run
        /\ Has(log, LAMBDA l : l[1] = "CRITICAL")
        /\ Last(calls).op \in LoginOps /\ ~Last(calls).ok
        /\ pc = "done"
        /\ ~SummaryLogged
        /\ repos = <<>> /\ ranked = <<>> /\ results = <<>>
        /\ total_repos = 0 /\ total_tags = 0
        /\ registry = registry0

C4_Witness ==
    /\ calls = <<Call("get-login-password", NoRepo, NoTag, TRUE),
                 Call("docker-login", NoRepo, NoTag, FALSE)>>
    /\ pc = "done"

\* the tag names carried by the images handed to the ranking
TagsOf(images) == UNION {Range(images[i].tags) : i \in 1..Len(images)}

\* C5: for every set of tagged images, the empty one included,
\* get_last_three_tags returns min(3, number of distinct tag names of the
\* images) tag names, none of them twice; with no tagged image it returns
\* the empty sequence.
C5_RankLength ==
    r_pc = "returned" =>
        /\ Len(r_out) = Min(MaxTags, Cardinality(TagsOf(r_images)))
        /\ NoDuplicates(r_out)
        /\ TaggedOnly(r_images) = <<>> => r_out = <<>>

C5_Witness ==
    /\ r_pc = "returned"
    /\ Len(r_out) = MaxTags
    /\ Len(r_images) >= 2
    /\ Range(r_images[1].tags) \cap Range(r_images[2].tags) # {}
    /\ r_cut = PageSize

\* the order in which the sorted walk meets the tags: image i comes before
\* image j when it was pushed later, or at the same time and listed first
Earlier(i, j) ==
    \/ r_images[i].pushedAt > r_images[j].pushedAt
    \/ r_images[i].pushedAt = r_images[j].pushedAt /\ i < j
Positions == UNION {{<<i, k>> : k \in 1..Len(r_images[i].tags)} : i \in 1..Len(r_images)}
TagAt(pos) == r_images[pos[1]].tags[pos[2]]
Before(p, q) == Earlier(p[1], q[1]) \/ (p[1] = q[1] /\ p[2] < q[2])
FirstSeen(t) ==
    CHOOSE p \in Positions :
        TagAt(p) = t /\ \A q \in Positions : (TagAt(q) = t /\ q # p) => Before(p, q)
PushedAtOf(t) == r_images[FirstSeen(t)[1]].pushedAt

\* C6: the returned sequence is the first three distinct tag names of the
\* walk over the images by descending push time and, within an image, in
\* the given tag order: returned tags are in walk order, every omitted tag is
\* met after all returned ones, so no returned tag comes from an image pushed
\* earlier than the image of an omitted tag, and [[v1,v2],[v3]] pushed
\* oldest to newest gives [v3, v1, v2].
C6_RankOrder ==
    r_pc = "returned" =>
        /\ Range(r_out) \subseteq TagsOf(r_images)
        /\ \A x, y \in 1..Len(r_out) :
              x < y => /\ Before(FirstSeen(r_out[x]), FirstSeen(r_out[y]))
                       /\ PushedAtOf(r_out[x]) >= PushedAtOf(r_out[y])
        /\ \A u \in TagsOf(r_images) \ Range(r_out) :
              /\ Len(r_out) = MaxTags
              /\ \A t \in Range(r_out) :
                    /\ Before(FirstSeen(t), FirstSeen(u))
                    /\ PushedAtOf(t) >= PushedAtOf(u)
        /\ r_images = <<Image("d", 1, <<"v1", "v2">>), Image("d", 2, <<"v3">>)>>
              => r_out = <<"v3", "v1", "v2">>

C6_Witness ==
    /\ r_pc = "returned"
    /\ Len(r_images) = 2
    /\ r_images[1].pushedAt < r_images[2].pushedAt
    /\ r_images[2].tags # <<>>
    /\ r_images[1].tags # <<>>
    /\ TagsOf(r_images) \ Range(r_out) # {}
    /\ Len(r_out) = MaxTags
    /\ r_out[MaxTags] = r_images[1].tags[1]

\* a name starts with p when it is p followed by some rest
IsPrefixOf(p, name) == \E k \in 0..Len(name) : p = [i \in 1..k |-> name[i]]
Listed == Flatten(d_pages)

\* C7: whatever the pages of the listing, get_repositories_with_prefix
\* returns exactly the listed names that start with the prefix, each as often
\* as it is listed, and the empty sequence when none does.
C7_DiscoveryExact ==
    d_pc = "returned" =>
        /\ Range(d_out) = {n \in Range(Listed) : IsPrefixOf(d_prefix, n)}
        /\ Len(d_out) = Count(Listed, LAMBDA n : IsPrefixOf(d_prefix, n))
        /\ (\A n \in Range(Listed) : ~IsPrefixOf(d_prefix, n)) => d_out = <<>>

C7_Witness ==
    /\ d_pc = "returned"
    /\ Len(d_pages) = 2
    /\ d_prefix = <<"g">>
    /\ d_pages[1] = <<<<"o", "g">>>>
    /\ d_out = <<<<"g", "o">>>>

\* the tags get_last_three_tags selected for a repository during the run
Selected == UNION {{<<ranked[i].repo, ranked[i].tags[k]>> : k \in 1..Len(ranked[i].tags)}
                   : i \in 1..Len(ranked)}

\* C8: no retry and no rollback: pull, delete and push are each invoked at
\* most once for a tag of a repository; a tag whose push failed after its
\* delete stays deleted, with no further call for it; and at the end of the
\* run a selected tag is absent from the registry only if its refresh ended
\* "push-failed".
C8_NoRetryNoRollback ==
    /\ \A r \in AllRepos, t \in TagNames, op \in RefreshOps :
          Count(calls, LAMBDA c : c.op = op /\ c.repo = r /\ c.tag = t) <= 1
    /\ \A i \in 1..Len(results) :
          results[i].reason = "push-failed" =>
              /\ Resolve(registry, results[i].repo, results[i].tag) = "none"
              /\ Len(StepsOf(results[i].repo, results[i].tag)) = 3
    /\ pc = "done" =>
          \A st \in Selected :
              Resolve(registry, st[1], st[2]) = "none" => ReasonOf(st[1], st[2]) = "push-failed"

C8_Witness ==
    /\ pc = "done"
    /\ Has(results, LAMBDA res : res.reason = "push-failed" /\ res.tag = "v1")
    /\ Has(results, LAMBDA res : res.reason = "ok" /\ res.tag = "v2")
    /\ Has(results, LAMBDA res : res.reason = "delete-failed")

\* the tag a refresh cycle is working on, when one is under way
InCycle(r, t) == pc \in {"delete", "push"} /\ repos[ri] = r /\ tags[ti] = t

C9_TagsKeepDigest ==
    /\ \A i \in 1..Len(results) :
          results[i].reason = "ok" =>
              /\ Resolve(registry, results[i].repo, results[i].tag) # "none"
              /\ Resolve(registry, results[i].repo, results[i].tag)
                    = Resolve(registry0, results[i].repo, results[i].tag)
    /\ \A r \in AllRepos, t \in TagNames :
          \/ Resolve(registry, r, t) = Resolve(registry0, r, t)
          \/ /\ Resolve(registry, r, t) = "none"
             /\ InCycle(r, t) \/ ReasonOf(r, t) = "push-failed"

C9_OthersUntouched ==
    \A r \in AllRepos, t \in TagNames :
        Resolve(registry', r, t) # Resolve(registry, r, t)
            => InCycle(r, t)

\* C9: with no other writer, a tag whose refresh returned (true, "ok")
\* resolves to the image it resolved to before, also at the end of the run,
\* and no step of a cycle changes what any other tag of any repository
\* resolves to, other tags of the same image included.
C9_RefreshKeepsDigest == [](C9_TagsKeepDigest) /\ [][C9_OthersUntouched]_vars

C9_Witness ==
    /\ pc = "done"
    /\ local # [u \in Refs |-> "stale"]
    /\ \E u \in Refs : local[u] = "stale"
    /\ registry0[GA] = <<Image("d1", 1, <<"v1", "v2">>), Image("d2", 2, <<"v3">>)>>
    /\ ReasonOf(GA, "v1") = "ok"
    /\ ReasonOf(GA, "v3") = "ok"
    /\ ReasonOf(GA, "v2") = "push-failed"

Visited == Len(ranked)
Counters == <<total_repos, total_tags, successes, failures>>

C10_CounterState ==
    /\ pc \notin {"delete", "push"} => total_tags = successes + failures
    /\ pc \in {"delete", "push"} => total_tags = successes + failures + 1
    /\ total_tags <= MaxTags * total_repos
    /\ total_repos <= Len(repos)
    /\ total_repos = Count(ranked, LAMBDA rk : rk.tags # <<>>)
    /\ \A i \in 1..Visited : ranked[i].repo = repos[i]
    /\ Len(results) = successes + failures
    /\ successes = Count(results, LAMBDA res : res.ok)

C10_CounterStep == \A i \in 1..Len(Counters) : Counters'[i] >= Counters[i]

\* C10: after every completed tag iteration and at the summary, tags
\* attempted = succeeded + failed; tags attempted <= 3 * repositories
\* touched; repositories touched <= discovered repositories and equals the
\* number of visited repositories whose ranking was not empty; no counter
\* ever decreases.
C10_Counters == [](C10_CounterState) /\ [][C10_CounterStep]_vars

C10_Witness ==
    /\ pc = "done"
    /\ failures > 0
    /\ successes > 1
    /\ total_repos = 1
    /\ Len(ranked) = 2

====
